---------------------------- MODULE Spec2Model ----------------------------
(***************************************************************************)
(* Model of 04-verify-jenkins.py: the .env loader (load_env), the top      *)
(* level guard (__main__) and the crumb-based verifier                     *)
(* (verify_jenkins_api).                                                   *)
(*                                                                         *)
(* Text is modelled as sequences of one-character strings.  The character  *)
(* "P" abbreviates the text JENKINS_ADMIN_PASSWORD when it is used as a    *)
(* key; none of the string operations of the program (strip, startswith,   *)
(* split on '=') can cut inside it.                                        *)
(***************************************************************************)
EXTENDS Integers, Sequences, FiniteSets, TLC

\* Longest environment file (in characters, newlines included) explored
\* when the process starts with an empty environment.
MaxFileLen == 6

\* Longest environment file explored when the process inherits a
\* JENKINS_ADMIN_PASSWORD from its parent.
MaxInheritFileLen == 3

\* The characters environment files are built from.
Chars == {"P", "=", "#", " ", "\"", "'", "\n"}

\* str.strip() with no argument removes whitespace.
WHITESPACE == {" ", "\n"}

\* The argument of value.strip('"\'').
QUOTE_CHARS == {"\"", "'"}

\* The key read by os.getenv('JENKINS_ADMIN_PASSWORD').
JENKINS_ADMIN_PASSWORD == <<"P">>

JENKINS_URL == "https://jenkins:10400"

----------------------------------------------------------------------------
(* Python string operations used by load_env *)

RECURSIVE lstrip(_, _)
lstrip(s, cs) ==
    IF s = <<>> THEN s
    ELSE IF Head(s) \in cs THEN lstrip(Tail(s), cs) ELSE s

RECURSIVE rstrip(_, _)
rstrip(s, cs) ==
    IF s = <<>> THEN s
    ELSE IF s[Len(s)] \in cs THEN rstrip(SubSeq(s, 1, Len(s) - 1), cs) ELSE s

\* s.strip(cs)
strip(s, cs) == rstrip(lstrip(s, cs), cs)

\* s.startswith(c) for a one-character c
startswith(s, c) == s # <<>> /\ s[1] = c

\* c in s
contains(s, c) == \E i \in 1..Len(s) : s[i] = c

\* index of the first occurrence of c in s (s contains c)
find(s, c) == CHOOSE i \in 1..Len(s) : s[i] = c /\ \A j \in 1..(i - 1) : s[j] # c

\* index of the last occurrence of c in s (s contains c)
rfind(s, c) == CHOOSE i \in 1..Len(s) : s[i] = c /\ \A j \in (i + 1)..Len(s) : s[j] # c

\* the index line.split('=', 1) cuts at: a bug would cut at the last '='
split_index_last(line) == rfind(line, "=")
split_index(line) == find(line, "=")

\* line.split('=', 1), for a line that contains '='
split_once(line) ==
    LET i == split_index(line)
    IN  <<SubSeq(line, 1, i - 1), SubSeq(line, i + 1, Len(line))>>

\* for line in f: the file's lines, each with its trailing newline
RECURSIVE readlines(_)
readlines(f) ==
    IF f = <<>> THEN <<>>
    ELSE LET n == IF contains(f, "\n") THEN find(f, "\n") ELSE Len(f)
         IN  <<SubSeq(f, 1, n)>> \o readlines(SubSeq(f, n + 1, Len(f)))

----------------------------------------------------------------------------
(* load_env *)

\* the guard of line 29 without the comment test
is_entry_no_comment_test(line) == line # <<>> /\ contains(line, "=")
\* line 29, applied to the stripped line
is_entry(line) == line # <<>> /\ ~startswith(line, "#") /\ contains(line, "=")

\* line 32: value.strip().strip('"\'')
strip_value(value) == strip(strip(value, WHITESPACE), QUOTE_CHARS)

\* lines 30-32: the key and the value of an entry line
parse_entry(line) ==
    LET kv == split_once(line)
    IN  <<strip(kv[1], WHITESPACE), strip_value(kv[2])>>

\* os.environ[key] = value keeping an earlier value of the key
setenv_keep_first(env, key, value) ==
    [k \in DOMAIN env \cup {key} |-> IF k \in DOMAIN env THEN env[k] ELSE value]
\* line 33: os.environ[key] = value
setenv(env, key, value) ==
    [k \in DOMAIN env \cup {key} |-> IF k = key THEN value ELSE env[k]]

\* os.environ[''] = value raises OSError (EINVAL from putenv)
setenv_raises(key) == key = <<>>

\* lines 27-33: the loop over the lines; the environment it leaves and
\* whether an exception ended it
RECURSIVE load_lines(_, _)
load_lines(lines, env) ==
    IF lines = <<>> THEN [env |-> env, raised |-> FALSE]
    ELSE LET line == strip(Head(lines), WHITESPACE)
         IN  IF is_entry(line)
             THEN LET e == parse_entry(line)
                  IN  IF setenv_raises(e[1])
                      THEN [env |-> env, raised |-> TRUE]
                      ELSE load_lines(Tail(lines), setenv(env, e[1], e[2]))
             ELSE load_lines(Tail(lines), env)

\* env_path.exists() taken to be always true
path_exists_always(ps) == TRUE
\* line 21: env_path.exists()
path_exists(ps) == ps # "missing"

\* line 26: open(env_path, 'r') raises (directory, permission, vanished)
open_raises(ps) == ps # "file"

----------------------------------------------------------------------------
(* __main__ *)

\* os.getenv(key): None when the key is not set
getenv(env, key) ==
    IF key \in DOMAIN env THEN [set |-> TRUE, v |-> env[key]]
    ELSE [set |-> FALSE, v |-> <<>>]

\* `not x` that only tests for None
is_falsy_none_only(x) == ~x.set
\* line 122: not JENKINS_PASSWORD
is_falsy(x) == ~x.set \/ x.v = <<>>

----------------------------------------------------------------------------
(* verify_jenkins_api *)

\* JSON values the crumb issuer's body may hold
JStr(s) == [t |-> "str", v |-> s]
JNull == [t |-> "null", v |-> "None"]

\* What the server may answer to a request.
Statuses == {200, 201, 500}

\* A response body: the text of it and, when it parses as a JSON object
\* holding both crumb keys, their values.
Body(text, json, c, f) == [text |-> text, json |-> json, crumb |-> c, crumbRequestField |-> f]
NoBody == Body("", FALSE, JNull, JNull)
ScriptBodies == {Body(t, FALSE, JNull, JNull) : t \in {"Welcome", "denied"}}
CrumbBodies ==
    {Body("oops", FALSE, JNull, JNull)} \cup
    {Body("{...}", TRUE, c, f) :
        c \in {JStr("c1"), JStr("c2")},
        f \in {JStr("Jenkins-Crumb"), JNull}}

\* The answers of the server (or of the network) to one request.
Answers(bodies) ==
    {[kind |-> "reply", status |-> s, body |-> b] : s \in Statuses, b \in bodies}
    \cup {[kind |-> "unreachable", status |-> 0, body |-> NoBody]}

\* urllib.request.urlopen: a 2xx answer is returned as the response, any
\* other answer is raised as HTTPError (a URLError); no answer is URLError.
urlopen(answer) ==
    IF answer.kind = "unreachable" THEN [kind |-> "URLError", status |-> 0, body |-> answer.body]
    ELSE IF answer.status >= 200 /\ answer.status < 300
         THEN [kind |-> "response", status |-> answer.status, body |-> answer.body]
         ELSE [kind |-> "HTTPError", status |-> answer.status, body |-> answer.body]

\* a status test that accepts every response
crumb_status_ok_any(status) == TRUE
\* line 67: response.status != 200 fails the crumb fetch
crumb_status_ok(status) == status = 200

\* headers with the field name and the crumb swapped
request_headers_swapped(header, value) == [name |-> value, value |-> header]
\* lines 94-97: the crumb header of the POST
request_headers(header, value) == [name |-> header, value |-> value]

\* line 99: Request(...) calls key.capitalize() on each header name
request_raises(header) == header.t # "str"

Msg(m, status, text) == [msg |-> m, status |-> status, text |-> text]

NoRequestHeaders == [name |-> JNull, value |-> JNull]

VARIABLES
    path_state,     \* ENV_FILE_PATH: "missing", "unreadable" or "file"
    file,           \* the content of the environment file
    environ0,       \* os.environ when the process starts
    environ,        \* os.environ
    pc,             \* where the script is
    exit_code,      \* the exit status of the process, -1 while it runs
    raised,         \* the function an exception propagated out of, or "none"
    stdout,         \* the printed messages
    requests,       \* the urlopen calls made so far
    opener,         \* whether install_opener has been called
    password,       \* the password handed to verify_jenkins_api
    returned,       \* what verify_jenkins_api returned: "False", "None" or "pending"
    crumb,          \* local of verify_jenkins_api
    crumb_header    \* local of verify_jenkins_api

vars == <<path_state, file, environ0, environ, pc, exit_code, raised, stdout,
          requests, opener, password, returned, crumb, crumb_header>>

Files(maxlen) == UNION {[1..n -> Chars] : n \in 0..maxlen}

EmptyEnv == [k \in {} |-> <<>>]
Environs == {EmptyEnv, [k \in {JENKINS_ADMIN_PASSWORD} |-> <<"P">>]}

Init ==
    /\ path_state \in {"missing", "unreadable", "file"}
    /\ environ0 \in Environs
    /\ file \in IF path_state # "file" THEN {<<>>}
                ELSE IF JENKINS_ADMIN_PASSWORD \in DOMAIN environ0
                THEN Files(MaxInheritFileLen) ELSE Files(MaxFileLen)
    /\ environ = environ0
    /\ pc = "main"
    /\ exit_code = -1
    /\ raised = "none"
    /\ stdout = <<>>
    /\ requests = <<>>
    /\ opener = FALSE
    /\ password = <<>>
    /\ returned = "pending"
    /\ crumb = JNull
    /\ crumb_header = JNull

\* lines 116-118 with load_env (16-34): the file is missing
MainMissingFile ==
    /\ pc = "main"
    /\ ~path_exists(path_state)
    /\ stdout' = stdout \o <<Msg("Loading", 0, ""), Msg("NotFound", 0, ""), Msg("RunSetup", 0, "")>>
    /\ pc' = "exited"
    /\ exit_code' = 1
    /\ UNCHANGED <<path_state, file, environ0, environ, raised, requests, opener,
                   password, returned, crumb, crumb_header>>

\* lines 116-126 with load_env (16-34): the file is there; load_env reads
\* it, then the password guard exits or calls verify_jenkins_api
Main ==
    /\ pc = "main"
    /\ path_exists(path_state)
    /\ IF open_raises(path_state)
       THEN /\ stdout' = stdout \o <<Msg("Loading", 0, "")>>
            /\ raised' = "load_env"
            /\ pc' = "exited"
            /\ exit_code' = 1
            /\ UNCHANGED <<environ, password>>
       ELSE LET r == load_lines(readlines(file), environ)
                pw == getenv(r.env, JENKINS_ADMIN_PASSWORD)
            IN  /\ environ' = r.env
                /\ IF r.raised
                   THEN /\ stdout' = stdout \o <<Msg("Loading", 0, "")>>
                        /\ raised' = "load_env"
                        /\ pc' = "exited"
                        /\ exit_code' = 1
                        /\ UNCHANGED password
                   ELSE IF is_falsy(pw)
                   THEN /\ stdout' = stdout \o
                            <<Msg("Loading", 0, ""), Msg("PasswordNotFound", 0, "")>>
                        /\ pc' = "exited"
                        /\ exit_code' = 1
                        /\ UNCHANGED <<raised, password>>
                   ELSE /\ stdout' = stdout \o <<Msg("Loading", 0, "")>>
                        /\ pc' = "verify"
                        /\ password' = pw.v
                        /\ UNCHANGED <<raised, exit_code>>
    /\ UNCHANGED <<path_state, file, environ0, requests, opener, returned,
                   crumb, crumb_header>>

\* lines 46-58: TLS context, password manager, handlers, opener
InstallOpener ==
    /\ pc = "verify"
    /\ \E fails \in BOOLEAN :
        IF fails
        THEN /\ raised' = "verify_jenkins_api"
             /\ pc' = "exited"
             /\ exit_code' = 1
             /\ UNCHANGED opener
        ELSE /\ opener' = TRUE
             /\ pc' = "opener"
             /\ UNCHANGED <<raised, exit_code>>
    /\ stdout' = Append(stdout, Msg("CreatingSSL", 0, ""))
    /\ UNCHANGED <<path_state, file, environ0, environ, requests, password,
                   returned, crumb, crumb_header>>

\* lines 62-82: the crumb GET
FetchCrumb ==
    /\ pc = "opener"
    /\ \E answer \in Answers(CrumbBodies) :
        LET r == urlopen(answer)
            connecting == Msg("Connecting", 0, JENKINS_URL)
        IN  /\ requests' = Append(requests,
                    [method |-> "GET", url |-> "/crumbIssuer/api/json",
                     headers |-> NoRequestHeaders, result |-> r])
            /\ IF r.kind = "response" /\ crumb_status_ok(r.status) /\ r.body.json
               THEN /\ crumb' = r.body.crumb
                    /\ crumb_header' = r.body.crumbRequestField
                    /\ stdout' = stdout \o <<connecting, Msg("GotCrumb", 0, r.body.crumb.v)>>
                    /\ pc' = "crumbed"
                    /\ UNCHANGED <<exit_code, returned>>
               ELSE /\ stdout' = stdout \o
                        ( IF r.kind = "response" /\ ~crumb_status_ok(r.status)
                          THEN <<connecting, Msg("FailedCrumb", r.status, "")>>
                          ELSE IF r.kind \in {"HTTPError", "URLError"}
                          THEN <<connecting, Msg("ConnectionFailed", 0, ""),
                                 Msg("Details", r.status, r.kind)>>
                          ELSE <<connecting, Msg("UnknownError", 0, "")>> )
                    /\ returned' = "False"
                    /\ pc' = "exited"
                    /\ exit_code' = 0
                    /\ UNCHANGED <<crumb, crumb_header>>
    /\ UNCHANGED <<path_state, file, environ0, environ, raised, opener, password>>

\* lines 86-113: the scriptText POST
ScriptPost ==
    /\ pc = "crumbed"
    /\ IF request_raises(crumb_header)
       THEN /\ stdout' = Append(stdout, Msg("Attempting", 0, ""))
            /\ raised' = "verify_jenkins_api"
            /\ exit_code' = 1
            /\ UNCHANGED <<requests, returned>>
       ELSE \E answer \in Answers(ScriptBodies) :
            LET r == urlopen(answer)
                attempting == Msg("Attempting", 0, "")
            IN  /\ requests' = Append(requests,
                        [method |-> "POST", url |-> "/scriptText",
                         headers |-> request_headers(crumb_header, crumb), result |-> r])
                /\ stdout' = stdout \o
                     ( IF r.kind = "response" /\ r.status = 200
                       THEN <<attempting, Msg("Success", 0, ""), Msg("Returned", 0, r.body.text)>>
                       ELSE IF r.kind = "response"
                       THEN <<attempting, Msg("ApiFailedStatus", r.status, ""),
                              Msg("Response", 0, r.body.text)>>
                       ELSE <<attempting, Msg("ApiFailed", 0, ""),
                              Msg("Details", r.status, r.kind)>> )
                /\ returned' = "None"
                /\ exit_code' = 0
                /\ UNCHANGED raised
    /\ pc' = "exited"
    /\ UNCHANGED <<path_state, file, environ0, environ, opener, password,
                   crumb, crumb_header>>

Next ==
    \/ MainMissingFile
    \/ Main
    \/ InstallOpener
    \/ FetchCrumb
    \/ ScriptPost

Spec == Init /\ [][Next]_vars

----------------------------------------------------------------------------
(* Vocabulary of the properties *)

Lines == readlines(file)

\* load_env has returned True
Loaded == path_state = "file" /\ pc # "main" /\ raised # "load_env"

\* the printed messages
Printed == {stdout[i] : i \in 1..Len(stdout)}

\* a line of whitespace only
IsBlankLine(l) == \A i \in 1..Len(l) : l[i] \in WHITESPACE

\* a line whose first non-whitespace character is '#'
IsCommentLine(l) ==
    \E i \in 1..Len(l) : l[i] = "#" /\ \A j \in 1..(i - 1) : l[j] \in WHITESPACE

\* an entry line: neither blank nor a comment, and holding an '='
IsEntryLine(l) == ~IsBlankLine(l) /\ ~IsCommentLine(l) /\ contains(l, "=")

\* the text before and after the first '=' of an entry line, whitespace trimmed
KeyOf(l) == strip(SubSeq(l, 1, find(l, "=") - 1), WHITESPACE)
RawValueOf(l) == strip(SubSeq(l, find(l, "=") + 1, Len(l)), WHITESPACE)

\* the lines of the file, each with what the properties need to know of it
ParsedLines ==
    LET ls == Lines
    IN  [i \in 1..Len(ls) |->
            LET l == ls[i]
                e == IsEntryLine(l)
            IN  [line |-> l,
                 entry |-> e,
                 key |-> IF e THEN KeyOf(l) ELSE <<>>,
                 raw |-> IF e THEN RawValueOf(l) ELSE <<>>]]

\* the entry lines among them, and those no later entry line overrides
EntriesOf(L) == {i \in 1..Len(L) : L[i].entry}
FinalEntriesOf(L) ==
    {i \in EntriesOf(L) : \A j \in (i + 1)..Len(L) : L[j].entry => L[j].key # L[i].key}

\* a value wrapped in a pair of equal quote characters, and what they wrap
IsQuoted(v) == Len(v) >= 2 /\ v[1] \in QUOTE_CHARS /\ v[Len(v)] = v[1]
Unwrapped(v) == IF IsQuoted(v) THEN SubSeq(v, 2, Len(v) - 1) ELSE v
EdgeQuoteFree(v) == v = <<>> \/ (v[1] \notin QUOTE_CHARS /\ v[Len(v)] \notin QUOTE_CHARS)

\* s is v without some quote characters at its two ends
IsQuoteTrimOf(s, v) ==
    \E a \in 1..(Len(v) + 1) : \E b \in (a - 1)..Len(v) :
        /\ s = SubSeq(v, a, b)
        /\ \A j \in (1..(a - 1)) \cup ((b + 1)..Len(v)) : v[j] \in QUOTE_CHARS

\* the JENKINS_ADMIN_PASSWORD entries of the file
SecretEntriesOf(L) == {i \in EntriesOf(L) : L[i].key = JENKINS_ADMIN_PASSWORD}

\* the file has no JENKINS_ADMIN_PASSWORD entry, or only empty-valued ones
LacksSecret(L) ==
    /\ path_state = "file"
    /\ \A i \in SecretEntriesOf(L) : strip(L[i].raw, QUOTE_CHARS) = <<>>

\* the run stops at the password guard: exit code 1 and nothing on the network
StopsAtGuard ==
    /\ pc \in {"main", "exited"}
    /\ requests = <<>>
    /\ ~opener
    /\ pc = "exited" => exit_code = 1

\* the process starts with a non-empty JENKINS_ADMIN_PASSWORD in its environment
InheritsSecret ==
    /\ JENKINS_ADMIN_PASSWORD \in DOMAIN environ0
    /\ environ0[JENKINS_ADMIN_PASSWORD] # <<>>

----------------------------------------------------------------------------
(* C1 *)

\* C1 as stated: whatever the initial environment, a file without a
\* JENKINS_ADMIN_PASSWORD entry (or with only empty ones) makes the program
\* exit with code 1 and issue no network request; and the password handed to
\* verify_jenkins_api is non-empty before any network call.
C1_ExitsWithoutSecretInFile ==
    /\ LacksSecret(ParsedLines) => StopsAtGuard
    /\ pc \in {"verify", "opener", "crumbed"} \/ requests # <<>> => password # <<>>

\* C1, amended: the same, for a file without a JENKINS_ADMIN_PASSWORD entry
\* only when the process did not inherit a non-empty JENKINS_ADMIN_PASSWORD;
\* a file whose JENKINS_ADMIN_PASSWORD entries are all empty stops the run
\* whatever the initial environment.
C1_ExitsWithoutSecret ==
    /\ StopsAtGuard \/
         LET L == ParsedLines
         IN  ~(LacksSecret(L) /\ (SecretEntriesOf(L) # {} \/ ~InheritsSecret))
    /\ pc \in {"verify", "opener", "crumbed"} \/ requests # <<>> => password # <<>>

C1_Witness ==
    /\ Loaded
    /\ pc = "exited"
    /\ exit_code = 1
    /\ InheritsSecret
    /\ Msg("PasswordNotFound", 0, "") \in Printed
    /\ LET L == ParsedLines IN LacksSecret(L) /\ SecretEntriesOf(L) # {}

----------------------------------------------------------------------------
(* C2 *)

\* C2: when the environment file does not exist, load_env returns False
\* without raising and the program exits with code 1 with no network call and
\* no opener installed.
C2_MissingFileExits ==
    path_state = "missing" =>
        /\ raised = "none"
        /\ requests = <<>>
        /\ ~opener
        /\ pc \in {"main", "exited"}
        /\ pc = "exited" => exit_code = 1 /\ Msg("NotFound", 0, "") \in Printed

C2_Witness == path_state = "missing" /\ pc = "exited" /\ exit_code = 1

----------------------------------------------------------------------------
(* C3 *)

CrumbFetchFailed ==
    /\ requests # <<>>
    /\ LET r == requests[1].result
       IN  r.kind # "response" \/ r.status # 200 \/ ~r.body.json

FailureReported ==
    \E m \in Printed : m.msg \in {"FailedCrumb", "ConnectionFailed", "UnknownError"}

\* C3: whenever the crumb GET fails (non-200 status, connection error, or an
\* exception while reading or parsing the response), verify_jenkins_api
\* reports the failure, returns False and never attempts the POST.
C3_CrumbFailureStops ==
    CrumbFetchFailed =>
        /\ Len(requests) = 1
        /\ requests[1].method = "GET"
        /\ pc = "exited"
        /\ returned = "False"
        /\ raised = "none"
        /\ FailureReported

C3_Witness ==
    /\ CrumbFetchFailed
    /\ requests[1].result.kind = "HTTPError"
    /\ requests[1].result.status = 500
    /\ returned = "False"

----------------------------------------------------------------------------
(* C4 *)

\* C4: the exit code is 1 exactly when the environment file is missing or
\* the secret is absent after loading, and 0 in every other run.
C4_ExitCode ==
    pc = "exited" =>
        /\ exit_code \in {0, 1}
        /\ exit_code = 1 <=>
            \/ path_state = "missing"
            \/ JENKINS_ADMIN_PASSWORD \notin DOMAIN environ
            \/ environ[JENKINS_ADMIN_PASSWORD] = <<>>

----------------------------------------------------------------------------
(* C5 *)

\* C5: no exception ever propagates out of load_env, out of
\* verify_jenkins_api, or past the top-level entry point.
C5_NothingPropagates == raised = "none"

----------------------------------------------------------------------------
(* C6 *)

PostResult == requests[2].result

\* C6: after a successful crumb fetch, an HTTP 200 answer to the POST with
\* body B prints a success message containing B; any non-200 answer prints
\* the status and the response body as a failure and no success message.
C6_PostOutcomeReported ==
    Len(requests) = 2 /\ PostResult.kind # "URLError" =>
        IF PostResult.status = 200
        THEN /\ Msg("Success", 0, "") \in Printed
             /\ Msg("Returned", 0, PostResult.body.text) \in Printed
        ELSE /\ \E m \in Printed : m.status = PostResult.status
             /\ \E m \in Printed : m.text = PostResult.body.text
             /\ Msg("Success", 0, "") \notin Printed

----------------------------------------------------------------------------
(* C7 *)

\* C7: after load_env returns, every key of an entry line holds the value of
\* the last entry line with that key, and a key that appears once holds its
\* single value.
C7_LastDuplicateWins ==
    Loaded =>
        LET L == ParsedLines
        IN  \A i \in FinalEntriesOf(L) :
                /\ L[i].key \in DOMAIN environ
                /\ environ[L[i].key] = strip_value(L[i].raw)

C7_Witness ==
    /\ Loaded
    /\ LET L == ParsedLines
       IN  \E i \in EntriesOf(L) : \E j \in FinalEntriesOf(L) :
            /\ i < j
            /\ L[i].key = L[j].key
            /\ strip_value(L[i].raw) # strip_value(L[j].raw)
            /\ environ[L[j].key] = strip_value(L[j].raw)

----------------------------------------------------------------------------
(* C8 *)

WithoutBlanksAndComments == SelectSeq(Lines, LAMBDA l : ~IsBlankLine(l) /\ ~IsCommentLine(l))

\* C8: blank lines and comment lines are skipped: loading the file leaves
\* the environment that loading it without its blank and comment lines
\* leaves, and no key is set from a comment line.
C8_BlankAndCommentSkipped ==
    path_state = "file" /\ pc # "main" =>
        LET r == load_lines(WithoutBlanksAndComments, environ0)
        IN  /\ environ = r.env
            /\ (raised = "load_env") = r.raised
            /\ \A k \in DOMAIN environ \ DOMAIN environ0 : k[1] # "#"

C8_Witness ==
    /\ Loaded
    /\ environ # environ0
    /\ LET ls == Lines
       IN  /\ \E i \in 1..Len(ls) : \E j \in (i + 1)..Len(ls) :
                /\ IsCommentLine(ls[i])
                /\ contains(ls[i], "=")
                /\ IsEntryLine(ls[j])
                /\ KeyOf(ls[j]) \in DOMAIN environ
           /\ \E i \in 1..Len(ls) : IsBlankLine(ls[i])

----------------------------------------------------------------------------
(* C9 *)

\* C9 as stated: each entry line is split on its first '='; a value wrapped
\* in a pair of quotes is stored without them and otherwise unchanged, and
\* an unquoted value is stored unchanged apart from whitespace trimming.
C9_QuotesUnwrapped ==
    Loaded =>
        LET L == ParsedLines
        IN  \A i \in FinalEntriesOf(L) :
                /\ L[i].key \in DOMAIN environ
                /\ environ[L[i].key] = Unwrapped(L[i].raw)

\* C9, amended: each entry line is split on its first '='; the stored value
\* is the whitespace-trimmed value without the quote characters at its two
\* ends (all of them, of either kind); it is the wrapped content, or the
\* unquoted value, unchanged whenever that neither begins nor ends with a
\* quote character.
C9_EdgeQuotesStripped ==
    Loaded =>
        LET L == ParsedLines
        IN  \A i \in FinalEntriesOf(L) :
                /\ L[i].key \in DOMAIN environ
                /\ LET v == L[i].raw
                       s == environ[L[i].key]
                   IN  /\ EdgeQuoteFree(Unwrapped(v)) => s = Unwrapped(v)
                       /\ EdgeQuoteFree(s)
                       /\ IsQuoteTrimOf(s, v)

C9_Witness ==
    /\ Loaded
    /\ LET L == ParsedLines
       IN  \E i \in FinalEntriesOf(L) :
            /\ IsQuoted(L[i].raw)
            /\ contains(Unwrapped(L[i].raw), "=")
            /\ environ[L[i].key] = Unwrapped(L[i].raw)

----------------------------------------------------------------------------
(* C10 *)

\* C10: at most one crumb GET and at most one scriptText POST, neither
\* retried; the POST comes only after a successful GET and carries the
\* header field and the crumb of that GET's response; a failed call ends the
\* run.
C10_OneGetOnePost ==
    /\ Len(requests) <= 2
    /\ requests # <<>> => requests[1].method = "GET"
    /\ Len(requests) = 2 =>
        /\ requests[2].method = "POST"
        /\ ~CrumbFetchFailed
        /\ requests[2].headers.name = requests[1].result.body.crumbRequestField
        /\ requests[2].headers.value = requests[1].result.body.crumb
        /\ pc = "exited"
    /\ CrumbFetchFailed => Len(requests) = 1 /\ pc = "exited"

C10_Witness ==
    /\ Len(requests) = 2
    /\ requests[2].method = "POST"
    /\ requests[2].headers = [name |-> JStr("Jenkins-Crumb"), value |-> JStr("c2")]
    /\ requests[2].result.kind = "HTTPError"

TypeOK ==
    /\ pc \in {"main", "verify", "opener", "crumbed", "exited"}
    /\ exit_code \in {-1, 0, 1}

=============================================================================
